---- MODULE Spec2Model ----
(***************************************************************************)
(* Voice-assistant relay server: the /api/text handler (response cache and *)
(* conversation memory, src/server.js) and the /api/voice handler          *)
(* (transcription, completion, synthesis, temporary-file cleanup,          *)
(* src/unnamed/part_000).                                                  *)
(*                                                                         *)
(* The two files are two server programs (both listen on port 5000): a    *)
(* process runs one of them, chosen in Init (server).  Each action is one  *)
(* run-to-completion segment of a handler: the code between two awaits.    *)
(* The module-level state (conversationHistory, cache) is shared by every  *)
(* request of the text server; the voice server has no such state and its  *)
(* handler never references it.  When a handler returns, its locals are    *)
(* dropped from the record of the request; the response and the adapter    *)
(* call counts stay.                                                       *)
(***************************************************************************)
EXTENDS Integers, Sequences, FiniteSets, TLC

\* ------------------------------------------------------------------ bounds
MaxRequests == 2
MaxTicks == 3

\* ------------------------------------------------------- program constants
MAX_HISTORY_MESSAGES == 10
CACHE_EXPIRY_TIME_MS == 3600000

\* ------------------------------------------------------------ value domains
\* JavaScript undefined and null, as they appear in a request body, in an
\* adapter's result or in a response field.
Undefined == "undefined"
Null == "null"

Prompts == {"p1", "p2"}
Texts == {"t1", "t2"}

\* Clock advances offered to the environment: half the cache lifetime, so
\* that a lookup can fall before, exactly on, and after an entry's expiry.
TickSteps == {CACHE_EXPIRY_TIME_MS \div 2}

SYSTEM_TEXT == "You are a helpful smart glasses assistant. Keep your answers concise."
SYSTEM_PROMPT == "SYSTEM_PROMPT_RU"
APOLOGY_INTELLECT == "APOLOGY_INTELLECT_RU"
APOLOGY_CONNECT == "APOLOGY_CONNECT_RU"
FALLBACK_NOT_HEARD == "FALLBACK_NOT_HEARD_RU"

\* JavaScript truthiness of a string-or-absent value: !x is true for
\* undefined, null and the empty string.
Falsy(x) == x \in {Undefined, Null, ""}

\* String.prototype.trim on the transcripts the model draws from.
Trim(s) == IF s \in {" ", "  "} THEN "" ELSE s

Turn(role, content) == [role |-> role, content |-> content]

\* cache[prompt] when the object has no such key, and the record of "no
\* completion stored yet" in lastStore.
NoEntry == [text |-> Undefined, expiry |-> -1]
NoStore == [text |-> Undefined, at |-> -1]

\* A handler invocation's locals, its response and its adapter-call
\* counts.  file is the state of the multer upload of a voice request.
IdleReq ==
    [kind |-> "none", pc |-> "idle", prompt |-> Undefined, path |-> "none",
     transcribedText |-> Undefined,
     messages |-> <<>>, textResponse |-> Undefined, ttsInput |-> Undefined,
     llmResult |-> "none", ttsResult |-> "none", status |-> 0, body |-> "none", sttCalls |-> 0,
     llmCalls |-> 0, ttsCalls |-> 0, unlinkCalls |-> 0, file |-> "none"]

\* What a completion call can yield: a transport error (the client throws),
\* or a response with a status, with or without a choices array, whose first
\* choice has or lacks a message with some content.
Choices(contents) ==
    {<<>>} \cup {<<[hasMessage |-> FALSE, content |-> Undefined]>>}
           \cup {<<[hasMessage |-> TRUE, content |-> c]>> : c \in contents}
Responses(statuses, contents) ==
    {[err |-> TRUE, status |-> 0, hasChoices |-> FALSE, choices |-> <<>>]}
    \cup {[err |-> FALSE, status |-> s, hasChoices |-> FALSE, choices |-> <<>>] :
            s \in statuses}
    \cup {[err |-> FALSE, status |-> s, hasChoices |-> TRUE, choices |-> c] :
            s \in statuses, c \in Choices(contents)}

\* How a completion call settled: "failed" for a transport error or a
\* response without a usable choices[0].message (or, for axios, a status
\* other than 200), else "empty" or "text" by the content.
LlmSettled(resp) ==
    IF resp.err THEN "failed"
    ELSE IF resp.status # 200 THEN "failed"
    ELSE IF ~resp.hasChoices THEN "failed"
    ELSE IF Len(resp.choices) = 0 THEN "failed"
    ELSE IF ~resp.choices[1].hasMessage THEN "failed"
    ELSE IF resp.choices[1].content = "" THEN "empty"
    ELSE "text"

\* deepseek.chat.completions.create (server.js) resolves to the response
\* body; axios.post (part_000) resolves to any 2xx response, whose content
\* may also be the empty string.
SdkResponses == Responses({200}, Texts)
AxiosResponses == Responses({200, 204}, Texts \cup {""})

\* The handler returns: its locals go out of scope; what stays observable
\* is the response written (status 0: none), the adapter calls made and the
\* upload.
Respond(q, pc, status, body, ttsResult) ==
    [IdleReq EXCEPT !.kind = q.kind, !.pc = pc, !.status = status, !.body = body,
                    !.llmResult = q.llmResult, !.ttsResult = ttsResult, !.sttCalls = q.sttCalls,
                    !.llmCalls = q.llmCalls, !.ttsCalls = q.ttsCalls,
                    !.unlinkCalls = q.unlinkCalls, !.file = q.file]

\* What the transcription call can yield as response.data.text (Null stands
\* for the caught transport error), and what synthesizeSpeech can do.
SttResults == {Null, Undefined, "", "  "} \cup Prompts
TtsResults == {"audio", "noaudio", "error"}

VARIABLES
    server,               \* which of the two server programs this process runs
    conversationHistory,  \* server.js: let conversationHistory = []
    cache,                \* server.js: const cache = {}
    now,                  \* Date.now()
    ticks,                \* number of clock advances taken (bounds the run)
    req,                  \* the handler invocations
    OPENAI_API_KEY,       \* part_000: whether the key is configured
    lastStore,            \* history variable: text and time of the last store per prompt
    appended              \* history variable: every turn ever pushed, in order

vars == <<server, conversationHistory, cache, now, ticks, req, OPENAI_API_KEY,
          lastStore, appended>>

InitWith(n, programs) ==
    /\ server \in programs
    /\ conversationHistory = <<>>
    /\ cache = [p \in Prompts |-> NoEntry]
    /\ now = 0
    /\ ticks = 0
    /\ req = [r \in 1..n |-> IdleReq]
    /\ OPENAI_API_KEY \in (IF server = "voice" THEN BOOLEAN ELSE {FALSE})
    /\ lastStore = [p \in Prompts |-> NoStore]
    /\ appended = <<>>

Init == InitWith(MaxRequests, {"text", "voice"})

\* The text server after WarmPairs rounds of "request a prompt whose entry
\* is absent or expired, completion answers, synthesis answers, half the
\* cache lifetime passes twice", alternating the two prompts: the memory
\* holds WarmPairs pairs, the entries of both prompts have expired, and no
\* request is in flight.
WarmPairs == MAX_HISTORY_MESSAGES - 1
WarmPrompt(j) == IF j % 2 = 1 THEN "p1" ELSE "p2"
WarmText(j) == IF j % 2 = 1 THEN "t1" ELSE "t2"
WarmTurn(i) ==
    LET j == (i + 1) \div 2
    IN  IF i % 2 = 1 THEN Turn("user", WarmPrompt(j)) ELSE Turn("assistant", WarmText(j))
WarmLast(p) == CHOOSE j \in 1..WarmPairs :
                   WarmPrompt(j) = p /\ \A k \in (j + 1)..WarmPairs : WarmPrompt(k) # p

InitWarm ==
    /\ server = "text"
    /\ conversationHistory = [i \in 1..(2 * WarmPairs) |-> WarmTurn(i)]
    /\ cache = [p \in Prompts |->
                  [text |-> WarmText(WarmLast(p)),
                   expiry |-> (WarmLast(p) - 1) * CACHE_EXPIRY_TIME_MS + CACHE_EXPIRY_TIME_MS]]
    /\ now = WarmPairs * CACHE_EXPIRY_TIME_MS
    /\ ticks = 0
    /\ req = [r \in 1..MaxRequests |-> IdleReq]
    /\ OPENAI_API_KEY = FALSE
    /\ lastStore = [p \in Prompts |->
                      [text |-> WarmText(WarmLast(p)),
                       at |-> (WarmLast(p) - 1) * CACHE_EXPIRY_TIME_MS]]
    /\ appended = conversationHistory

\* Requests are numbered in order of arrival.
Fresh(r, program) ==
    /\ server = program
    /\ r \in DOMAIN req
    /\ req[r].pc = "idle"
    /\ IF r = 1 THEN TRUE ELSE req[r - 1].pc # "idle"

Shared == <<conversationHistory, cache, lastStore, appended>>

\* ------------------------------------------------------------------ clock
Tick(d, limit) ==
    /\ server = "text"
    /\ ticks < limit
    /\ now' = now + d
    /\ ticks' = ticks + 1
    /\ UNCHANGED <<server, conversationHistory, cache, req, OPENAI_API_KEY, lastStore, appended>>

\* ------------------------------------------------- /api/text (src/server.js)
\* Variant: an entry is served whatever its expiry.
CacheHitIgnoringExpiry(c, p, t) == c[p] # NoEntry

\* Variant: an entry is still served at the instant of its expiry.
CacheHitInclusive(c, p, t) == c[p] # NoEntry /\ t <= c[p].expiry

\* if (cache[prompt] && Date.now() < cache[prompt].expiry)
CacheHit(c, p, t) == c[p] # NoEntry /\ t < c[p].expiry

\* Variant: the lifetime is not added to the expiry.
CacheStoreWithoutLifetime(c, p, text, t) ==
    [c EXCEPT ![p] = [text |-> text, expiry |-> t]]

\* cache[prompt] = { text: textResponse, expiry: Date.now() + CACHE_EXPIRY_TIME_MS }
CacheStore(c, p, text, t) ==
    [c EXCEPT ![p] = [text |-> text, expiry |-> t + CACHE_EXPIRY_TIME_MS]]

\* Array.prototype.slice(start) for 0 <= start <= length
SliceFrom(s, start) == SubSeq(s, start + 1, Len(s))

\* Variant: the pair is pushed and the history is never cut.
HistoryAppendWithoutEviction(h, p, text) ==
    h \o <<Turn("user", p), Turn("assistant", text)>>

\* Variant: the assistant turn is pushed before the user turn.
HistoryAppendAssistantFirst(h, p, text) ==
    LET pushed == h \o <<Turn("assistant", text), Turn("user", p)>>
    IN  IF Len(pushed) > MAX_HISTORY_MESSAGES * 2
        THEN SubSeq(pushed, Len(pushed) - MAX_HISTORY_MESSAGES * 2 + 1, Len(pushed))
        ELSE pushed

\* Variant: when the history is too long, the newest turns are cut off.
HistoryAppendKeepingOldest(h, p, text) ==
    LET pushed == h \o <<Turn("user", p), Turn("assistant", text)>>
    IN  IF Len(pushed) > MAX_HISTORY_MESSAGES * 2
        THEN SubSeq(pushed, 1, MAX_HISTORY_MESSAGES * 2)
        ELSE pushed

\* push user turn, push assistant turn, then keep the last 2*MAX turns
HistoryAppend(h, p, text) ==
    LET pushed == h \o <<Turn("user", p), Turn("assistant", text)>>
    IN  IF Len(pushed) > MAX_HISTORY_MESSAGES * 2
        THEN SliceFrom(pushed, Len(pushed) - MAX_HISTORY_MESSAGES * 2)
        ELSE pushed

\* Variant: the new user turn is placed before the remembered turns.
BuildMessagesUserBeforeHistory(h, p) ==
    <<Turn("system", SYSTEM_TEXT), Turn("user", p)>> \o h

\* messages = [system].concat(conversationHistory); messages.push(user)
BuildMessages(h, p) == <<Turn("system", SYSTEM_TEXT)>> \o h \o <<Turn("user", p)>>

\* llmResponse.choices[0].message.content raises a TypeError when choices or
\* the message is absent; the client itself throws on a transport error.
TextLlmThrows(resp) ==
    IF resp.err THEN TRUE
    ELSE IF ~resp.hasChoices THEN TRUE
    ELSE IF Len(resp.choices) = 0 THEN TRUE
    ELSE ~resp.choices[1].hasMessage

\* Variant: a request without text is passed on to the completion call.
TextBadRequestProceeding(r, p) ==
    /\ Fresh(r, "text")
    /\ Falsy(p)
    /\ req' = [req EXCEPT ![r] = [@ EXCEPT !.kind = "text", !.pc = "llm",
                                           !.prompt = p, !.path = "miss",
                                           !.messages = BuildMessages(conversationHistory, p),
                                           !.llmCalls = @ + 1]]
    /\ UNCHANGED <<server, Shared, now, ticks, OPENAI_API_KEY>>

\* if (!prompt) return res.status(400).send(...)
TextBadRequest(r, p) ==
    /\ Fresh(r, "text")
    /\ Falsy(p)
    /\ req' = [req EXCEPT ![r] = Respond([@ EXCEPT !.kind = "text"], "done", 400, "error", "none")]
    /\ UNCHANGED <<server, Shared, now, ticks, OPENAI_API_KEY>>

\* Variant: a hit renews the entry's expiry.
TextCacheHitRenewing(r, p) ==
    /\ Fresh(r, "text")
    /\ ~Falsy(p)
    /\ CacheHit(cache, p, now)
    /\ req' = [req EXCEPT ![r] = [@ EXCEPT !.kind = "text", !.pc = "tts",
                                           !.prompt = p, !.path = "hit",
                                           !.textResponse = cache[p].text,
                                           !.ttsInput = cache[p].text,
                                           !.ttsCalls = @ + 1]]
    /\ cache' = CacheStore(cache, p, cache[p].text, now)
    /\ UNCHANGED <<server, conversationHistory, lastStore, appended, now, ticks,
                   OPENAI_API_KEY>>

\* cache hit: synthesizeSpeech is called with the cached text
TextCacheHit(r, p) ==
    /\ Fresh(r, "text")
    /\ ~Falsy(p)
    /\ CacheHit(cache, p, now)
    /\ req' = [req EXCEPT ![r] = [@ EXCEPT !.kind = "text", !.pc = "tts",
                                           !.prompt = p, !.path = "hit",
                                           !.textResponse = cache[p].text,
                                           !.ttsInput = cache[p].text,
                                           !.ttsCalls = @ + 1]]
    /\ UNCHANGED <<server, Shared, now, ticks, OPENAI_API_KEY>>

\* Variant: a lookup that finds an expired entry deletes it.
TextCacheMissSweeping(r, p) ==
    /\ Fresh(r, "text")
    /\ ~Falsy(p)
    /\ ~CacheHit(cache, p, now)
    /\ req' = [req EXCEPT ![r] = [@ EXCEPT !.kind = "text", !.pc = "llm",
                                           !.prompt = p, !.path = "miss",
                                           !.messages = BuildMessages(conversationHistory, p),
                                           !.llmCalls = @ + 1]]
    /\ cache' = [cache EXCEPT ![p] = NoEntry]
    /\ UNCHANGED <<server, conversationHistory, lastStore, appended, now, ticks,
                   OPENAI_API_KEY>>

\* cache miss: the messages are built and the completion call is started
TextCacheMiss(r, p) ==
    /\ Fresh(r, "text")
    /\ ~Falsy(p)
    /\ ~CacheHit(cache, p, now)
    /\ req' = [req EXCEPT ![r] = [@ EXCEPT !.kind = "text", !.pc = "llm",
                                           !.prompt = p, !.path = "miss",
                                           !.messages = BuildMessages(conversationHistory, p),
                                           !.llmCalls = @ + 1]]
    /\ UNCHANGED <<server, Shared, now, ticks, OPENAI_API_KEY>>

\* Variant: a completion does not overwrite an entry that is still live.
TextCompletionOkFirstWriterWins(r, resp) ==
    /\ r \in DOMAIN req
    /\ req[r].kind = "text" /\ req[r].pc = "llm"
    /\ ~TextLlmThrows(resp)
    /\ LET p == req[r].prompt
           text == resp.choices[1].content
       IN  /\ cache' = IF CacheHit(cache, p, now) THEN cache ELSE CacheStore(cache, p, text, now)
           /\ lastStore' = [lastStore EXCEPT ![p] = [text |-> text, at |-> now]]
           /\ conversationHistory' = HistoryAppend(conversationHistory, p, text)
           /\ appended' = appended \o <<Turn("user", p), Turn("assistant", text)>>
           /\ req' = [req EXCEPT ![r] = [@ EXCEPT !.pc = "tts",
                                                  !.llmResult = LlmSettled(resp),
                                                  !.textResponse = text,
                                                  !.ttsInput = text,
                                                  !.ttsCalls = @ + 1]]
    /\ UNCHANGED <<server, now, ticks, OPENAI_API_KEY>>

\* the completion call returns: cache store, memory update, synthesis call
TextCompletionOk(r, resp) ==
    /\ r \in DOMAIN req
    /\ req[r].kind = "text" /\ req[r].pc = "llm"
    /\ ~TextLlmThrows(resp)
    /\ LET p == req[r].prompt
           text == resp.choices[1].content
       IN  /\ cache' = CacheStore(cache, p, text, now)
           /\ lastStore' = [lastStore EXCEPT ![p] = [text |-> text, at |-> now]]
           /\ conversationHistory' = HistoryAppend(conversationHistory, p, text)
           /\ appended' = appended \o <<Turn("user", p), Turn("assistant", text)>>
           /\ req' = [req EXCEPT ![r] = [@ EXCEPT !.pc = "tts",
                                                  !.llmResult = LlmSettled(resp),
                                                  !.textResponse = text,
                                                  !.ttsInput = text,
                                                  !.ttsCalls = @ + 1]]
    /\ UNCHANGED <<server, now, ticks, OPENAI_API_KEY>>

\* Variant: a failed completion is replaced by an apology that is cached,
\* remembered and synthesized.
TextCompletionThrowApologizing(r, resp) ==
    /\ r \in DOMAIN req
    /\ req[r].kind = "text" /\ req[r].pc = "llm"
    /\ TextLlmThrows(resp)
    /\ LET p == req[r].prompt
       IN  /\ cache' = CacheStore(cache, p, APOLOGY_CONNECT, now)
           /\ lastStore' = [lastStore EXCEPT ![p] = [text |-> APOLOGY_CONNECT, at |-> now]]
           /\ conversationHistory' = HistoryAppend(conversationHistory, p, APOLOGY_CONNECT)
           /\ appended' = appended \o <<Turn("user", p), Turn("assistant", APOLOGY_CONNECT)>>
           /\ req' = [req EXCEPT ![r] = [@ EXCEPT !.pc = "tts",
                                                  !.llmResult = LlmSettled(resp),
                                                  !.textResponse = APOLOGY_CONNECT,
                                                  !.ttsInput = APOLOGY_CONNECT,
                                                  !.ttsCalls = @ + 1]]
    /\ UNCHANGED <<server, now, ticks, OPENAI_API_KEY>>

\* the completion call throws: catch (error) -> 500
TextCompletionThrow(r, resp) ==
    /\ r \in DOMAIN req
    /\ req[r].kind = "text" /\ req[r].pc = "llm"
    /\ TextLlmThrows(resp)
    /\ req' = [req EXCEPT ![r] =
                 Respond([@ EXCEPT !.llmResult = LlmSettled(resp)], "done", 500, "error", "none")]
    /\ UNCHANGED <<server, Shared, now, ticks, OPENAI_API_KEY>>

\* synthesizeSpeech resolves: res.send(ttsResponse.audioContent), whatever
\* audioContent is (neither path of this handler tests it)
TextTtsSend(r, o) ==
    /\ r \in DOMAIN req
    /\ req[r].kind = "text" /\ req[r].pc = "tts"
    /\ o \in {"audio", "noaudio"}
    /\ req' = [req EXCEPT ![r] = Respond(@, "done", 200, IF o = "audio" THEN "audio" ELSE "empty", o)]
    /\ UNCHANGED <<server, Shared, now, ticks, OPENAI_API_KEY>>

\* Variant: when synthesis fails, the entry and the pair just written are
\* taken back before the 500.
TextTtsErrorCaughtRollingBack(r) ==
    /\ r \in DOMAIN req
    /\ req[r].kind = "text" /\ req[r].pc = "tts" /\ req[r].path = "miss"
    /\ req' = [req EXCEPT ![r] = Respond(@, "done", 500, "error", "error")]
    /\ cache' = [cache EXCEPT ![req[r].prompt] = NoEntry]
    /\ conversationHistory' = SubSeq(conversationHistory, 1, Len(conversationHistory) - 2)
    /\ UNCHANGED <<server, lastStore, appended, now, ticks, OPENAI_API_KEY>>

\* Variant: a rejected synthesis call is retried once before the 500.
TextTtsErrorCaughtRetrying(r) ==
    /\ r \in DOMAIN req
    /\ req[r].kind = "text" /\ req[r].pc = "tts" /\ req[r].path = "miss"
    /\ req' = [req EXCEPT ![r] =
                 IF @.ttsCalls < 2
                 THEN [@ EXCEPT !.ttsCalls = @ + 1]
                 ELSE Respond(@, "done", 500, "error", "error")]
    /\ UNCHANGED <<server, Shared, now, ticks, OPENAI_API_KEY>>

\* synthesizeSpeech rejects inside the try block (miss path): catch -> 500
TextTtsErrorCaught(r) ==
    /\ r \in DOMAIN req
    /\ req[r].kind = "text" /\ req[r].pc = "tts" /\ req[r].path = "miss"
    /\ req' = [req EXCEPT ![r] = Respond(@, "done", 500, "error", "error")]
    /\ UNCHANGED <<server, Shared, now, ticks, OPENAI_API_KEY>>

\* synthesizeSpeech rejects on the hit path, which is outside the try block:
\* the async handler's promise rejects.  The framework either drops the
\* rejection (no response is ever written) or routes it to its default
\* error handler (500), depending on its major version.
TextTtsErrorUncaught(r, routed) ==
    /\ r \in DOMAIN req
    /\ req[r].kind = "text" /\ req[r].pc = "tts" /\ req[r].path = "hit"
    /\ req' = [req EXCEPT ![r] =
                 IF routed
                 THEN Respond(@, "done", 500, "error", "error")
                 ELSE Respond(@, "unhandled", 0, "none", "error")]
    /\ UNCHANGED <<server, Shared, now, ticks, OPENAI_API_KEY>>

\* --------------------------------------- /api/voice (src/unnamed/part_000)
\* Variant: the transcript is not trimmed before the test.
UnhearableUntrimmed(tr) == Falsy(tr)

\* if (!transcribedText || transcribedText.trim() === '')
Unhearable(tr) == IF Falsy(tr) THEN TRUE ELSE Trim(tr) = ""

\* callDeepseekApi: the value it returns for each outcome of axios.post
callDeepseekApi(resp) ==
    IF resp.err THEN APOLOGY_CONNECT
    ELSE IF resp.status # 200 \/ ~resp.hasChoices \/ Len(resp.choices) = 0
         THEN APOLOGY_INTELLECT
    ELSE IF ~resp.choices[1].hasMessage THEN APOLOGY_CONNECT
    ELSE resp.choices[1].content

\* finally { if (filePath && fs.existsSync(filePath)) fs.unlink(filePath, cb) }
Cleanup(q) ==
    IF q.file = "present"
    THEN [q EXCEPT !.unlinkCalls = @ + 1, !.file = "unlinking"]
    ELSE q

\* no uploaded file: 400, before the try block
VoiceBadRequest(r) ==
    /\ Fresh(r, "voice")
    /\ req' = [req EXCEPT ![r] = Respond([@ EXCEPT !.kind = "voice"], "done", 400, "error", "none")]
    /\ UNCHANGED <<server, Shared, now, ticks, OPENAI_API_KEY>>

\* an upload arrives: callWhisperApi(filePath) is awaited; it posts to the
\* transcription service only when the key is configured
VoiceReceive(r) ==
    /\ Fresh(r, "voice")
    /\ req' = [req EXCEPT ![r] = [@ EXCEPT !.kind = "voice", !.pc = "stt",
                                           !.file = "present",
                                           !.sttCalls = IF OPENAI_API_KEY THEN @ + 1 ELSE @]]
    /\ UNCHANGED <<server, Shared, now, ticks, OPENAI_API_KEY>>

\* what callWhisperApi can return: null without a key, else the service's answer
WhisperReturns(tr) == IF OPENAI_API_KEY THEN tr \in SttResults ELSE tr = Null

\* nothing heard: the fixed text goes to callTtsApi
VoiceFallback(r, tr) ==
    /\ r \in DOMAIN req
    /\ req[r].kind = "voice" /\ req[r].pc = "stt"
    /\ WhisperReturns(tr)
    /\ Unhearable(tr)
    /\ req' = [req EXCEPT ![r] = [@ EXCEPT !.pc = "tts", !.path = "fallback",
                                           !.transcribedText = tr,
                                           !.textResponse = FALLBACK_NOT_HEARD,
                                           !.ttsInput = FALLBACK_NOT_HEARD,
                                           !.ttsCalls = @ + 1]]
    /\ UNCHANGED <<server, Shared, now, ticks, OPENAI_API_KEY>>

\* a transcript: callDeepseekApi(transcribedText) is awaited
VoiceTranscribed(r, tr) ==
    /\ r \in DOMAIN req
    /\ req[r].kind = "voice" /\ req[r].pc = "stt"
    /\ WhisperReturns(tr)
    /\ ~Unhearable(tr)
    /\ req' = [req EXCEPT ![r] = [@ EXCEPT !.pc = "llm", !.path = "llm",
                                           !.transcribedText = tr,
                                           !.prompt = tr,
                                           !.messages = <<Turn("system", SYSTEM_PROMPT),
                                                          Turn("user", tr)>>,
                                           !.llmCalls = @ + 1]]
    /\ UNCHANGED <<server, Shared, now, ticks, OPENAI_API_KEY>>

\* Variant: the voice handler stores the completion like the text handler.
VoiceCompletionReturnStoring(r, resp) ==
    /\ r \in DOMAIN req
    /\ req[r].kind = "voice" /\ req[r].pc = "llm"
    /\ LET p == req[r].prompt
           text == callDeepseekApi(resp)
       IN  /\ cache' = CacheStore(cache, p, text, now)
           /\ lastStore' = [lastStore EXCEPT ![p] = [text |-> text, at |-> now]]
           /\ conversationHistory' = HistoryAppend(conversationHistory, p, text)
           /\ appended' = appended \o <<Turn("user", p), Turn("assistant", text)>>
           /\ req' = [req EXCEPT ![r] = [@ EXCEPT !.pc = "tts",
                                                  !.llmResult = LlmSettled(resp),
                                                  !.textResponse = text,
                                                  !.ttsInput = text,
                                                  !.ttsCalls = @ + 1]]
    /\ UNCHANGED <<server, now, ticks, OPENAI_API_KEY>>

\* callDeepseekApi returns: its value goes to callTtsApi
VoiceCompletionReturn(r, resp) ==
    /\ r \in DOMAIN req
    /\ req[r].kind = "voice" /\ req[r].pc = "llm"
    /\ req' = [req EXCEPT ![r] = [@ EXCEPT !.pc = "tts",
                                           !.llmResult = LlmSettled(resp),
                                           !.textResponse = callDeepseekApi(resp),
                                           !.ttsInput = callDeepseekApi(resp),
                                           !.ttsCalls = @ + 1]]
    /\ UNCHANGED <<server, Shared, now, ticks, OPENAI_API_KEY>>

\* callTtsApi returns a stream: headers, pipe(res); then the finally block
VoiceStream(r) ==
    /\ r \in DOMAIN req
    /\ req[r].kind = "voice" /\ req[r].pc = "tts"
    /\ req' = [req EXCEPT ![r] = Cleanup(Respond(@, "done", 200, "audio", "audio"))]
    /\ UNCHANGED <<server, Shared, now, ticks, OPENAI_API_KEY>>

\* Variant: the file is removed at the end of the try block only.
VoiceTtsFailedWithoutCleanup(r, o) ==
    /\ r \in DOMAIN req
    /\ req[r].kind = "voice" /\ req[r].pc = "tts"
    /\ o \in {"noaudio", "error"}
    /\ req' = [req EXCEPT ![r] = Respond(@, "done", 500, "error", o)]
    /\ UNCHANGED <<server, Shared, now, ticks, OPENAI_API_KEY>>

\* callTtsApi throws (the call rejected, or no audioContent): catch -> 500;
\* then the finally block
VoiceTtsFailed(r, o) ==
    /\ r \in DOMAIN req
    /\ req[r].kind = "voice" /\ req[r].pc = "tts"
    /\ o \in {"noaudio", "error"}
    /\ req' = [req EXCEPT ![r] = Cleanup(Respond(@, "done", 500, "error", o))]
    /\ UNCHANGED <<server, Shared, now, ticks, OPENAI_API_KEY>>

\* fs.unlink completes
VoiceUnlinked(r) ==
    /\ r \in DOMAIN req
    /\ req[r].file = "unlinking"
    /\ req' = [req EXCEPT ![r].file = "deleted"]
    /\ UNCHANGED <<server, Shared, now, ticks, OPENAI_API_KEY>>

\* ---------------------------------------------------------- specifications
Bodies == Prompts \cup {Undefined, ""}

TextNext ==
    \/ \E d \in TickSteps : Tick(d, MaxTicks)
    \/ \E r \in DOMAIN req, p \in Bodies : TextBadRequest(r, p)
    \/ \E r \in DOMAIN req, p \in Bodies : TextCacheHit(r, p)
    \/ \E r \in DOMAIN req, p \in Bodies : TextCacheMiss(r, p)
    \/ \E r \in DOMAIN req, resp \in SdkResponses : TextCompletionOk(r, resp)
    \/ \E r \in DOMAIN req, resp \in SdkResponses : TextCompletionThrow(r, resp)
    \/ \E r \in DOMAIN req, o \in TtsResults : TextTtsSend(r, o)
    \/ \E r \in DOMAIN req : TextTtsErrorCaught(r)
    \/ \E r \in DOMAIN req, routed \in BOOLEAN : TextTtsErrorUncaught(r, routed)

VoiceNext ==
    \/ \E r \in DOMAIN req : VoiceBadRequest(r)
    \/ \E r \in DOMAIN req : VoiceReceive(r)
    \/ \E r \in DOMAIN req, tr \in SttResults : VoiceFallback(r, tr)
    \/ \E r \in DOMAIN req, tr \in SttResults : VoiceTranscribed(r, tr)
    \/ \E r \in DOMAIN req, resp \in AxiosResponses : VoiceCompletionReturn(r, resp)
    \/ \E r \in DOMAIN req : VoiceStream(r)
    \/ \E r \in DOMAIN req, o \in TtsResults : VoiceTtsFailed(r, o)
    \/ \E r \in DOMAIN req : VoiceUnlinked(r)

Next == TextNext \/ VoiceNext

Spec == Init /\ [][Next]_vars

\* The text server from a memory one pair short of its bound.
SpecWarm == InitWarm /\ [][TextNext]_vars

\* ------------------------------------------------------------------ claims
\* Steps of one handler invocation, as seen in a pair of states.
Arrives(r) == req[r].pc = "idle" /\ req'[r].pc # "idle"
Leaves(r, pc) == req[r].pc = pc /\ req'[r].pc # pc
LastTwo(h) == SubSeq(h, Len(h) - 1, Len(h))

\* C1: in every reachable state of the text server the shared conversation
\* history holds at most 2 * MAX_HISTORY_MESSAGES turns.
HistoryBounded == Len(conversationHistory) <= 2 * MAX_HISTORY_MESSAGES

\* C1 witness: the history is full and more turns than fit have been pushed.
HistoryFullAfterEviction ==
    /\ Len(conversationHistory) = 2 * MAX_HISTORY_MESSAGES
    /\ Len(appended) > 2 * MAX_HISTORY_MESSAGES

\* C2: once a completion for prompt p has been stored with text T at time t,
\* a text request for p arriving at a time before t + TTL is answered from
\* the cache: T goes to synthesis, and the request never invokes completion.
RepeatWithinTtlServedFromCache ==
    [][\A r \in DOMAIN req :
          /\ \A p \in Prompts :
                (/\ Arrives(r)
                 /\ req'[r].kind = "text"
                 /\ req'[r].prompt = p
                 /\ lastStore[p] # NoStore
                 /\ now < lastStore[p].at + CACHE_EXPIRY_TIME_MS)
                => (/\ req'[r].pc = "tts"
                    /\ req'[r].path = "hit"
                    /\ req'[r].ttsInput = lastStore[p].text
                    /\ req'[r].ttsCalls = 1
                    /\ req'[r].llmCalls = 0)
          /\ req[r].path = "hit" => req'[r].llmCalls = 0]_vars

\* C2 witness: a request served from the cache, later than the store.
HitLaterThanStore ==
    \E r \in DOMAIN req :
        /\ req[r].path = "hit"
        /\ req[r].pc = "tts"
        /\ req[r].ttsInput = lastStore[req[r].prompt].text
        /\ now > lastStore[req[r].prompt].at

\* C3: a text request for a prompt whose entry's expiry has passed misses:
\* it invokes completion, and when completion returns a text the entry is
\* overwritten with that text and the expiry now + TTL.
ExpiredEntryIsMiss ==
    [][\A r \in DOMAIN req :
          /\ \A p \in Prompts :
                (/\ Arrives(r)
                 /\ req'[r].kind = "text"
                 /\ req'[r].prompt = p
                 /\ cache[p] # NoEntry
                 /\ now > cache[p].expiry)
                => (/\ req'[r].pc = "llm"
                    /\ req'[r].path = "miss"
                    /\ req'[r].llmCalls = 1
                    /\ cache' = cache)
          /\ (req[r].kind = "text" /\ Leaves(r, "llm") /\ req'[r].pc = "tts")
             => cache'[req[r].prompt] =
                    [text |-> req'[r].ttsInput, expiry |-> now + CACHE_EXPIRY_TIME_MS]]_vars

\* C3 witness: a completion call in flight for a prompt whose stored entry
\* has expired.
CompletionInFlightForExpired ==
    \E r \in DOMAIN req :
        /\ req[r].kind = "text"
        /\ req[r].pc = "llm"
        /\ cache[req[r].prompt] # NoEntry
        /\ now > cache[req[r].prompt].expiry

\* C4 (as claimed): a request whose synthesis call failed has been answered
\* with a 500 error body.
SynthesisFailureAnswered500 ==
    \A r \in DOMAIN req :
        req[r].ttsResult = "error" => (req[r].status = 500 /\ req[r].body = "error")

\* The transcripts the claims call unavailable, null, empty or whitespace-only.
NotHeard == {Null, Undefined, "", " ", "  "}

\* C5: a voice request whose transcription is unavailable, null, empty or
\* whitespace-only passes the fixed "could not hear you" text to synthesis,
\* never invokes completion, and changes neither memory nor cache.
UnheardVoiceSkipsCompletion ==
    [][\A r \in DOMAIN req :
          /\ (/\ req[r].kind = "voice"
              /\ Leaves(r, "stt")
              /\ req'[r].transcribedText \in NotHeard)
             => (/\ req'[r].pc = "tts"
                 /\ req'[r].ttsInput = FALLBACK_NOT_HEARD
                 /\ req'[r].ttsCalls = 1
                 /\ req'[r].llmCalls = 0
                 /\ UNCHANGED <<conversationHistory, cache>>)
          /\ (req[r].path = "fallback" /\ req'[r] # req[r])
             => (req'[r].llmCalls = 0 /\ UNCHANGED <<conversationHistory, cache>>)]_vars

\* C5 witness: a whitespace-only transcript, the fixed text on its way to
\* synthesis, no completion call.
WhitespaceTranscriptFallsBack ==
    \E r \in DOMAIN req :
        /\ req[r].kind = "voice"
        /\ req[r].pc = "tts"
        /\ req[r].transcribedText = "  "
        /\ req[r].ttsInput = FALLBACK_NOT_HEARD
        /\ req[r].llmCalls = 0

CacheHitChangesNothing ==
    [][\A r \in DOMAIN req :
          /\ \A p \in Prompts :
                (/\ Arrives(r)
                 /\ req'[r].kind = "text"
                 /\ req'[r].prompt = p
                 /\ cache[p] # NoEntry
                 /\ now < cache[p].expiry)
                => (/\ req'[r].pc = "tts"
                    /\ req'[r].ttsInput = cache[p].text
                    /\ req'[r].ttsCalls = 1
                    /\ req'[r].llmCalls = 0
                    /\ UNCHANGED <<conversationHistory, cache>>)
          /\ (req[r].path = "hit" /\ req'[r] # req[r])
             => (req'[r].llmCalls = 0 /\ UNCHANGED <<conversationHistory, cache>>)]_vars

\* C8 witness: a request served from the cache has been answered, and the
\* entry still carries the expiry of its store.
HitAnsweredEntryUntouched ==
    \E r \in DOMAIN req, p \in Prompts :
        /\ req[r].kind = "text"
        /\ req[r].pc = "done"
        /\ req[r].status = 200
        /\ req[r].llmCalls = 0
        /\ lastStore[p] # NoStore
        /\ cache[p] = [text |-> lastStore[p].text,
                       expiry |-> lastStore[p].at + CACHE_EXPIRY_TIME_MS]

\* C9: when the completion call of a text request for p returns text T at
\* time t, the same step leaves cache[p] = (T, t + TTL), makes (user p),
\* (assistant T) the two newest turns of memory, and only then invokes
\* synthesis, with T.
MissStoresThenSynthesizes ==
    [][\A r \in DOMAIN req :
          (/\ req[r].kind = "text"
           /\ Leaves(r, "llm")
           /\ req'[r].llmResult = "text")
          => (/\ req'[r].textResponse \in Texts
              /\ cache'[req[r].prompt] =
                     [text |-> req'[r].textResponse,
                      expiry |-> now + CACHE_EXPIRY_TIME_MS]
              /\ Len(conversationHistory') >= 2
              /\ LastTwo(conversationHistory') =
                     <<Turn("user", req[r].prompt),
                       Turn("assistant", req'[r].textResponse)>>
              /\ req[r].ttsCalls = 0
              /\ req'[r].pc = "tts"
              /\ req'[r].ttsCalls = 1
              /\ req'[r].ttsInput = req'[r].textResponse)]_vars

\* C9 witness: a completion has just overwritten the entry that an earlier
\* completion for the same prompt stored with another text.
EntryOverwrittenByLaterCompletion ==
    \E r \in DOMAIN req :
        /\ req[r].kind = "text"
        /\ req[r].pc = "tts"
        /\ req[r].path = "miss"
        /\ Len(appended) >= 4
        /\ appended[1].content = req[r].prompt
        /\ appended[2].content # req[r].textResponse
        /\ LastTwo(appended) = <<Turn("user", req[r].prompt),
                                 Turn("assistant", req[r].textResponse)>>
        /\ cache[req[r].prompt] = [text |-> req[r].textResponse,
                                   expiry |-> now + CACHE_EXPIRY_TIME_MS]

EveryEndedRequestAnswered ==
    \A r \in DOMAIN req :
        req[r].pc \in {"done", "unhandled"} => req[r].status \in {200, 400, 500}

\* C12 (as claimed): whatever the completion service answered, the text
\* callDeepseekApi returned to the voice handler is not empty.
VoiceCompletionTextNonEmpty ==
    \A r \in DOMAIN req :
        (req[r].kind = "voice" /\ req[r].pc = "tts" /\ req[r].path = "llm")
        => req[r].ttsInput \notin {"", Undefined, Null}

\* C13: a request that arrives without its required field (a text request
\* with no text, a voice request with no upload) is answered 400 in the
\* step in which it arrives, with no transcription, completion or synthesis
\* call and with memory and cache as they were; no request that carries its
\* field is answered 400.
MissingFieldRejected ==
    [][\A r \in DOMAIN req :
          Arrives(r) =>
              LET q == req'[r]
              IN  IF \/ (q.kind = "text" /\ Falsy(q.prompt))
                     \/ (q.kind = "voice" /\ q.file = "none")
                  THEN /\ q.pc = "done" /\ q.status = 400 /\ q.body = "error"
                       /\ q.sttCalls = 0 /\ q.llmCalls = 0 /\ q.ttsCalls = 0
                       /\ UNCHANGED <<conversationHistory, cache>>
                  ELSE q.status # 400]_vars

\* C13 witness: a text request was rejected while memory and cache held an
\* earlier exchange.
RejectedWhileMemoryHeld ==
    \E r \in DOMAIN req :
        /\ req[r].kind = "text" /\ req[r].status = 400
        /\ conversationHistory # <<>>
        /\ \E p \in Prompts : cache[p] # NoEntry

\* C14 (as claimed): a lookup serves the entry if and only if the entry
\* exists and not (now > expiry), so a lookup at exactly now = expiry is a
\* hit.
LookupAtExpiryIsHit ==
    [][\A r \in DOMAIN req :
          (Arrives(r) /\ req'[r].kind = "text" /\ ~Falsy(req'[r].prompt)) =>
              LET p == req'[r].prompt
              IN  (req'[r].path = "hit")
                      <=> (cache[p] # NoEntry /\ ~(now > cache[p].expiry))]_vars

\* C14 (amended): a lookup serves the entry if and only if the entry exists
\* and now < expiry; a lookup at exactly now = expiry is a miss.
LookupHitIffBeforeExpiry ==
    [][\A r \in DOMAIN req :
          (Arrives(r) /\ req'[r].kind = "text" /\ ~Falsy(req'[r].prompt)) =>
              LET p == req'[r].prompt
              IN  /\ req'[r].path \in {"hit", "miss"}
                  /\ (req'[r].path = "hit")
                         <=> (cache[p] # NoEntry /\ now < cache[p].expiry)]_vars

\* C14 witness: a request looked its prompt up at exactly now = expiry (no
\* pair was appended since its lookup, so the entry is the one it saw) and
\* took the miss path.
MissAtExactExpiry ==
    \E r \in DOMAIN req :
        /\ req[r].kind = "text" /\ req[r].pc = "llm" /\ req[r].path = "miss"
        /\ cache[req[r].prompt] # NoEntry
        /\ cache[req[r].prompt].expiry = now
        /\ Len(req[r].messages) = Len(appended) + 2

\* C15: under every interleaving of text requests the history is a sequence
\* of whole pairs (even length, a user turn at each odd position followed by
\* the assistant turn pushed with it) and equals the most recent
\* min(k, MAX_HISTORY_MESSAGES) of the k pairs appended so far, in append order.
HistoryIsRecentWholePairs ==
    /\ Len(conversationHistory) % 2 = 0
    /\ \A i \in 1..Len(conversationHistory) :
           conversationHistory[i].role = (IF i % 2 = 1 THEN "user" ELSE "assistant")
    /\ Len(appended) % 2 = 0
    /\ LET k == Len(appended) \div 2
           kept == IF k < MAX_HISTORY_MESSAGES THEN k ELSE MAX_HISTORY_MESSAGES
       IN  conversationHistory
               = SubSeq(appended, Len(appended) - 2 * kept + 1, Len(appended))

\* C15 witness: a pair was evicted by the append of a request whose snapshot
\* had been taken before another request's pair was appended.
EvictedByInterleavedAppend ==
    \E r \in DOMAIN req :
        /\ req[r].kind = "text" /\ req[r].pc = "tts" /\ req[r].path = "miss"
        /\ Len(appended) > 2 * MAX_HISTORY_MESSAGES
        /\ Len(req[r].messages) < Len(conversationHistory) + 2
        /\ conversationHistory[1] # appended[1]

\* C16: within one request each adapter is called at most once and in
\* pipeline order: no completion or synthesis call while transcription is
\* pending, no synthesis call while the completion call is pending, a
\* synthesis call that follows a completion call follows its return, and no
\* call is made again after it failed.
AdaptersOnceInOrder ==
    \A r \in DOMAIN req :
        LET q == req[r]
        IN  /\ q.sttCalls <= 1 /\ q.llmCalls <= 1 /\ q.ttsCalls <= 1
            /\ q.kind = "text" => q.sttCalls = 0
            /\ q.pc \in {"idle", "stt"} => (q.llmCalls = 0 /\ q.ttsCalls = 0)
            /\ q.pc = "llm" => (q.llmCalls = 1 /\ q.ttsCalls = 0 /\ q.llmResult = "none")
            /\ (q.llmCalls = 1 /\ q.ttsCalls = 1) => q.llmResult # "none"
            /\ q.llmResult # "none" => q.llmCalls = 1
            /\ q.ttsResult # "none" => q.ttsCalls = 1

\* C16 witness: a request whose synthesis failed after its completion call
\* (for a voice request, after its transcription call too) ended with a 500
\* and one call to each adapter.
EndedAfterFailureWithSingleCalls ==
    \E r \in DOMAIN req :
        /\ req[r].pc = "done" /\ req[r].status = 500 /\ req[r].ttsResult = "error"
        /\ req[r].llmCalls = 1 /\ req[r].ttsCalls = 1
        /\ req[r].kind = "voice" => req[r].sttCalls = 1

\* C17: the message list of a text request that misses the cache is the
\* system instruction, then the history as it is in the step of the cache
\* check, then the new user turn; the list stays as it was built while the
\* completion call is in flight, whatever other requests append, and has at
\* most 2 * MAX_HISTORY_MESSAGES + 2 messages.
MessagesAreSnapshotAtLookup ==
    [][\A r \in DOMAIN req :
          /\ (Arrives(r) /\ req'[r].kind = "text" /\ req'[r].path = "miss") =>
                 /\ req'[r].pc = "llm"
                 /\ req'[r].messages
                        = <<Turn("system", SYSTEM_TEXT)>> \o conversationHistory
                              \o <<Turn("user", req'[r].prompt)>>
                 /\ Len(req'[r].messages) <= 2 * MAX_HISTORY_MESSAGES + 2
          /\ (req[r].kind = "text" /\ req[r].pc = "llm" /\ req'[r].pc = "llm") =>
                 req'[r].messages = req[r].messages]_vars

\* C17 witness: a completion call is in flight with a message list that no
\* longer matches the history, another request having appended its pair
\* (filling the memory) since the list was built.
InFlightWithStaleSnapshot ==
    \E r \in DOMAIN req :
        /\ req[r].kind = "text" /\ req[r].pc = "llm"
        /\ Len(conversationHistory) = 2 * MAX_HISTORY_MESSAGES
        /\ req[r].messages # <<Turn("system", SYSTEM_TEXT)>> \o conversationHistory
                                 \o <<Turn("user", req[r].prompt)>>

\* C18: no step removes a key from the cache, and the entry of a prompt
\* changes only in a step in which a completion call for that same prompt
\* returns to its handler; an expired entry stays stored until then.
CacheEntryChangesOnlyByItsCompletion ==
    [][\A p \in Prompts :
          /\ cache[p] # NoEntry => cache'[p] # NoEntry
          /\ cache'[p] # cache[p] =>
                 \E r \in DOMAIN req :
                     /\ req[r].kind = "text" /\ req[r].prompt = p
                     /\ Leaves(r, "llm") /\ req'[r].llmResult = "text"
                     /\ cache'[p] = [text |-> req'[r].textResponse,
                                     expiry |-> now + CACHE_EXPIRY_TIME_MS]]_vars

\* C18 witness: an entry that expired is still stored, after a lookup of its
\* prompt missed and while the completion call of that lookup is pending.
ExpiredEntryStillStored ==
    \E r \in DOMAIN req :
        /\ req[r].kind = "text" /\ req[r].pc = "llm"
        /\ cache[req[r].prompt] # NoEntry
        /\ now > cache[req[r].prompt].expiry
        /\ Len(req[r].messages) = Len(appended) + 2

\* C19: when the synthesis of a text request that missed the cache fails
\* after its completion succeeded, the request ends with a 500 while the
\* cache and the memory are left as they are (the entry of its prompt is
\* still the last one stored); and when that request's completion is the
\* only one stored so far, a later request for the same prompt within the
\* entry's lifetime is served from the cache without a completion call.
FailedSynthesisKeepsStore ==
    [][\A r \in DOMAIN req :
          /\ (/\ req[r].kind = "text" /\ req[r].pc = "tts" /\ req[r].path = "miss"
              /\ req'[r].ttsResult = "error") =>
                 /\ req'[r].pc = "done" /\ req'[r].status = 500
                 /\ UNCHANGED <<conversationHistory, cache>>
                 /\ cache'[req[r].prompt]
                        = [text |-> lastStore[req[r].prompt].text,
                           expiry |-> lastStore[req[r].prompt].at + CACHE_EXPIRY_TIME_MS]
          /\ (/\ req[r].kind = "text" /\ req[r].pc = "done" /\ req[r].status = 500
              /\ req[r].llmCalls = 1 /\ req[r].ttsResult = "error"
              /\ Len(appended) = 2) =>
                 \A s \in DOMAIN req :
                     (/\ Arrives(s) /\ req'[s].prompt = appended[1].content
                      /\ now < lastStore[appended[1].content].at + CACHE_EXPIRY_TIME_MS) =>
                         /\ req'[s].path = "hit" /\ req'[s].llmCalls = 0
                         /\ req'[s].ttsInput = appended[2].content]_vars

\* C19 witness: the only completion stored so far belongs to a request that
\* ended with a 500 because its synthesis failed, and a later request for
\* the same prompt is being served from the cache.
RepeatAfterFailedSynthesisHits ==
    \E r, s \in DOMAIN req :
        /\ req[r].kind = "text" /\ req[r].pc = "done" /\ req[r].status = 500
        /\ req[r].llmCalls = 1 /\ req[r].ttsResult = "error"
        /\ Len(appended) = 2
        /\ req[s].pc = "tts" /\ req[s].path = "hit" /\ req[s].llmCalls = 0
        /\ req[s].ttsInput = appended[2].content
        /\ now > 0

\* C20: whatever the interleaving of the text requests, memory holds one
\* (user, assistant) pair per request whose completion succeeded, in the
\* order in which the completions returned, and the cache entry of a prompt
\* holds the assistant text of the last of the pairs of that prompt (the
\* last completion to return wins); a prompt with no pair has no entry.
LastCompletionWins ==
    /\ Len(conversationHistory)
           = 2 * Cardinality({r \in DOMAIN req :
                                  req[r].kind = "text" /\ req[r].llmResult = "text"})
    /\ conversationHistory = appended
    /\ \A p \in Prompts :
           LET pairs == {i \in 1..Len(conversationHistory) :
                             i % 2 = 1 /\ conversationHistory[i] = Turn("user", p)}
           IN  IF pairs = {}
               THEN cache[p] = NoEntry
               ELSE LET last == CHOOSE i \in pairs : \A j \in pairs : j <= i
                    IN  cache[p].text = conversationHistory[last + 1].content

\* C20 witness: two requests looked the same uncached prompt up before
\* either completion returned, the completions returned different texts,
\* and the cache holds the text of the one that returned second.
ConcurrentMissesLaterStored ==
    \E r, s \in DOMAIN req :
        /\ r # s
        /\ req[r].kind = "text" /\ req[s].kind = "text"
        /\ req[r].path = "miss" /\ req[s].path = "miss"
        /\ req[r].pc = "tts" /\ req[s].pc = "tts"
        /\ req[r].prompt = req[s].prompt
        /\ Len(req[r].messages) = 2 /\ Len(req[s].messages) = 2
        /\ req[r].textResponse # req[s].textResponse
        /\ conversationHistory
               = <<Turn("user", req[r].prompt), Turn("assistant", req[r].textResponse),
                   Turn("user", req[s].prompt), Turn("assistant", req[s].textResponse)>>
        /\ cache[req[s].prompt].text = req[s].textResponse

====
